---------------------------- MODULE Spec2Model ----------------------------
(***************************************************************************)
(* Model of src/infrastructure/knex/utils/migration/relation-changes.ts:   *)
(* analyzeRelationChanges and the three planners it runs over one mutable  *)
(* diff (deleted relations, created relations, updated relations with the  *)
(* relation type-change resolver).                                         *)
(***************************************************************************)
EXTENDS Naturals, Sequences, FiniteSets, TLC

VARIABLES
  oldRelations,   \* parameter oldRelations (rebound to the resolved list)
  newRelations,   \* parameter newRelations (rebound to the resolved list)
  diff,           \* parameter diff, mutated in place
  deletedRelIds,  \* const deletedRelIds
  createdRelIds,  \* const createdRelIds
  pc,             \* position in analyzeRelationChanges
  i,              \* position of the running for-of loop
  callerDiff,     \* history: the diff as the caller passed it
  journal         \* history: every push, in the order it happened

vars == <<oldRelations, newRelations, diff, deletedRelIds, createdRelIds,
          pc, i, callerDiff, journal>>

----------------------------------------------------------------------------
(* Bounds of the model *)

\* the most relations a list of a batch holds
MaxRels == 2

----------------------------------------------------------------------------
(* JavaScript values *)

\* undefined, for a string-valued field
UNDEF == "<undefined>"

\* !s for a string-or-undefined s
Falsy(s) == s \in {UNDEF, ""}

\* a || b with the operands mixed up: the fallback always wins
OrIgnoringFirst(a, b) == b

\* a || b
Or(a, b) == IF Falsy(a) THEN b ELSE a

\* a ?? b for an optional boolean, held as {} (undefined) or {v}
Coalesce(a, b) == IF a = {} THEN b ELSE CHOOSE v \in a : TRUE

M2O == "many-to-one"
O2O == "one-to-one"
O2M == "one-to-many"
M2M == "many-to-many"

RelationTypes == {M2O, O2O, O2M, M2M}

\* the table whose relations are diffed (parameter tableName)
tableName == "post"

\* rows of table_definition the lookup can find: id -> name
TableDefinition == (2 :> "tag")

----------------------------------------------------------------------------
(* Naming helpers imported from shared/utils/naming-helpers *)

getForeignKeyColumnName(propertyName) == propertyName \o "Id"

getJunctionTableName(source, propertyName, target) ==
  source \o "_" \o propertyName \o "_" \o target

getJunctionColumnNames(source, propertyName, target) ==
  [sourceColumn |-> source \o "Id", targetColumn |-> target \o "Id"]

----------------------------------------------------------------------------
(* Target table name resolution, lines 21-52 *)

TargetTableIdOf(rel) ==
  IF rel.targetTable.kind = "object" THEN {rel.targetTable.id} ELSE {}

\* targetTableIds as a set: the ids handed to whereIn
TargetTableIds(olds, news) ==
  UNION {TargetTableIdOf(olds[n]) : n \in DOMAIN olds}
    \cup UNION {TargetTableIdOf(news[n]) : n \in DOMAIN news}

\* targetTablesMap: the rows found for those ids
TargetTablesMap(olds, news) ==
  [t \in TargetTableIds(olds, news) \cap DOMAIN TableDefinition |->
     TableDefinition[t]]

ResolveRelation(rel, map) ==
  LET targetTableId == TargetTableIdOf(rel)
      looked == IF targetTableId # {}
                THEN LET t == CHOOSE t \in targetTableId : TRUE
                     IN IF t \in DOMAIN map THEN map[t] ELSE UNDEF
                ELSE rel.targetTable.name
  IN [rel EXCEPT !.sourceTableName = Or(@, tableName),
                 !.targetTableName = Or(@, looked)]

ResolveRelations(rels, map) ==
  [n \in DOMAIN rels |-> ResolveRelation(rels[n], map)]

----------------------------------------------------------------------------
(* Maps and array helpers *)

\* new Map(rels.map(r => [r.id, r])).has(id)
MapHas(rels, id) == \E n \in DOMAIN rels : rels[n].id = id

\* Map.get(id): the last entry set for the key
MapGet(rels, id) ==
  rels[CHOOSE n \in DOMAIN rels :
         /\ rels[n].id = id
         /\ \A m \in DOMAIN rels : rels[m].id = id => m <= n]

\* the keys of the Map in iteration order: first insertion of each key
RECURSIVE MapKeys(_)
MapKeys(rels) ==
  IF rels = <<>> THEN <<>>
  ELSE LET init == SubSeq(rels, 1, Len(rels) - 1)
           last == rels[Len(rels)]
       IN IF MapHas(init, last.id) THEN MapKeys(init)
          ELSE Append(MapKeys(init), last.id)

\* rels.find(r => r.id === id); the caller tests the result
Find(rels, id) ==
  rels[CHOOSE n \in DOMAIN rels :
         /\ rels[n].id = id
         /\ \A m \in DOMAIN rels : rels[m].id = id => n <= m]

\* the filter testing the list's own Map: nothing passes
IdsNotInOwnMap(rels, others) ==
  LET kept == SelectSeq(rels, LAMBDA r : ~MapHas(rels, r.id))
  IN [n \in DOMAIN kept |-> kept[n].id]

\* rels.filter(r => !map.has(r.id)).map(r => r.id)
RECURSIVE IdsNotIn(_, _)
IdsNotIn(rels, others) ==
  IF rels = <<>> THEN <<>>
  ELSE LET rest == IdsNotIn(Tail(rels), others)
       IN IF MapHas(others, Head(rels).id) THEN rest
          ELSE <<Head(rels).id>> \o rest

----------------------------------------------------------------------------
(* The diff and its lists *)

ListNames == {"columns.create", "columns.delete", "crossTableOperations",
              "junctionTables.create", "junctionTables.drop"}

HasCross(d) == "crossTableOperations" \in DOMAIN d
HasJunction(d) == "junctionTables" \in DOMAIN d

\* the initialisation without its test: the list is emptied every time
InitCrossAlways(d) ==
  IF HasJunction(d)
  THEN [columns |-> d.columns, crossTableOperations |-> <<>>,
        junctionTables |-> d.junctionTables]
  ELSE [columns |-> d.columns, crossTableOperations |-> <<>>]

\* if (!diff.crossTableOperations) diff.crossTableOperations = [];
InitCross(d) ==
  IF HasCross(d) THEN d
  ELSE IF HasJunction(d)
       THEN [columns |-> d.columns, crossTableOperations |-> <<>>,
             junctionTables |-> d.junctionTables]
       ELSE [columns |-> d.columns, crossTableOperations |-> <<>>]

\* if (!diff.junctionTables) diff.junctionTables = {create: [], drop: [], update: []};
InitJunction(d) ==
  LET empty == [create |-> <<>>, drop |-> <<>>, update |-> <<>>]
  IN IF HasJunction(d) THEN d
     ELSE IF HasCross(d)
          THEN [columns |-> d.columns,
                crossTableOperations |-> d.crossTableOperations,
                junctionTables |-> empty]
          ELSE [columns |-> d.columns, junctionTables |-> empty]

\* the entries of one list; a list whose field is absent holds none
ListOf(d, list) ==
  CASE list = "columns.create" -> d.columns.create
    [] list = "columns.delete" -> d.columns.delete
    [] list = "crossTableOperations" ->
         IF HasCross(d) THEN d.crossTableOperations ELSE <<>>
    [] list = "junctionTables.create" ->
         IF HasJunction(d) THEN d.junctionTables.create ELSE <<>>
    [] list = "junctionTables.drop" ->
         IF HasJunction(d) THEN d.junctionTables.drop ELSE <<>>

\* The running state of one handler call: the diff, the pushes made so far
\* (kept for the journal) and whether the call has thrown.
Begin(d) == [diff |-> d, pushed |-> <<>>, thrown |-> FALSE]

\* unshift in place of push: the entry goes to the front of its list
PushFront(r, list, op) ==
  LET d == r.diff
      d2 == CASE list = "columns.create" ->
                   [d EXCEPT !.columns.create = <<op>> \o @]
              [] list = "columns.delete" ->
                   [d EXCEPT !.columns.delete = <<op>> \o @]
              [] list = "crossTableOperations" ->
                   [d EXCEPT !.crossTableOperations = <<op>> \o @]
              [] list = "junctionTables.create" ->
                   [d EXCEPT !.junctionTables.create = <<op>> \o @]
              [] list = "junctionTables.drop" ->
                   [d EXCEPT !.junctionTables.drop = <<op>> \o @]
  IN [r EXCEPT !.diff = d2,
               !.pushed = Append(@, [list |-> list, op |-> op])]

\* diff.<list>.push(op)
Push(r, list, op) ==
  LET d == r.diff
      d2 == CASE list = "columns.create" ->
                   [d EXCEPT !.columns.create = Append(@, op)]
              [] list = "columns.delete" ->
                   [d EXCEPT !.columns.delete = Append(@, op)]
              [] list = "crossTableOperations" ->
                   [d EXCEPT !.crossTableOperations = Append(@, op)]
              [] list = "junctionTables.create" ->
                   [d EXCEPT !.junctionTables.create = Append(@, op)]
              [] list = "junctionTables.drop" ->
                   [d EXCEPT !.junctionTables.drop = Append(@, op)]
  IN [r EXCEPT !.diff = d2,
               !.pushed = Append(@, [list |-> list, op |-> op])]

\* the error only logged, as the deleted and created paths do
ThrowNothing(r) == r

\* throw new Error(...)
Throw(r) == [r EXCEPT !.thrown = TRUE]

----------------------------------------------------------------------------
(* handleDeletedRelations, the body of its loop for one deleted relation *)

\* the loop body with crossTableOperations initialised before the test of
\* inversePropertyName, as handleRelationTypeChange does
DeletedRelationInitFirst(rel, d) ==
  IF rel.type = M2O \/ rel.type = O2O THEN
    LET fkColumn == Or(rel.foreignKeyColumn,
                       getForeignKeyColumnName(rel.propertyName))
    IN Push(Begin(d), "columns.delete",
            [name |-> fkColumn, isForeignKey |-> TRUE])
  ELSE IF rel.type = O2M THEN
    IF Falsy(rel.inversePropertyName) THEN Begin(InitCross(d))
    ELSE LET fkColumn == Or(rel.foreignKeyColumn,
                            getForeignKeyColumnName(rel.inversePropertyName))
         IN Push(Begin(InitCross(d)), "crossTableOperations",
                 [operation |-> "dropColumn",
                  targetTable |-> rel.targetTableName,
                  columnName |-> fkColumn,
                  isForeignKey |-> TRUE])
  ELSE IF rel.type = M2M THEN
    Push(Begin(InitJunction(d)), "junctionTables.drop",
         [tableName |-> rel.junctionTableName, reason |-> "Relation deleted"])
  ELSE Begin(d)

DeletedRelation(rel, d) ==
  IF rel.type = M2O \/ rel.type = O2O THEN
    LET fkColumn == Or(rel.foreignKeyColumn,
                       getForeignKeyColumnName(rel.propertyName))
    IN Push(Begin(d), "columns.delete",
            [name |-> fkColumn, isForeignKey |-> TRUE])
  ELSE IF rel.type = O2M THEN
    IF Falsy(rel.inversePropertyName) THEN Begin(d)
    ELSE LET fkColumn == Or(rel.foreignKeyColumn,
                            getForeignKeyColumnName(rel.inversePropertyName))
         IN Push(Begin(InitCross(d)), "crossTableOperations",
                 [operation |-> "dropColumn",
                  targetTable |-> rel.targetTableName,
                  columnName |-> fkColumn,
                  isForeignKey |-> TRUE])
  ELSE IF rel.type = M2M THEN
    Push(Begin(InitJunction(d)), "junctionTables.drop",
         [tableName |-> rel.junctionTableName, reason |-> "Relation deleted"])
  ELSE Begin(d)

----------------------------------------------------------------------------
(* handleCreatedRelations, the body of its loop for one created relation *)

\* the loop body with the one-to-many FK column pointing at the target
\* table, as a many-to-one column does, not at the diffed table
CreatedRelationWrongTarget(rel, d) ==
  IF rel.type = M2O \/ rel.type = O2O THEN
    LET fkColumn == Or(rel.foreignKeyColumn,
                       getForeignKeyColumnName(rel.propertyName))
    IN Push(Begin(d), "columns.create",
            [name |-> fkColumn,
             type |-> "int",
             isNullable |-> Coalesce(rel.isNullable, TRUE),
             isForeignKey |-> TRUE,
             foreignKeyTarget |-> rel.targetTableName,
             foreignKeyColumn |-> "id"])
  ELSE IF rel.type = O2M THEN
    IF Falsy(rel.inversePropertyName) THEN Begin(d)
    ELSE LET fkColumn == Or(rel.foreignKeyColumn,
                            getForeignKeyColumnName(rel.inversePropertyName))
         IN Push(Begin(InitCross(d)), "crossTableOperations",
                 [operation |-> "createColumn",
                  targetTable |-> rel.targetTableName,
                  column |-> [name |-> fkColumn,
                              type |-> "int",
                              isNullable |-> TRUE,
                              isForeignKey |-> TRUE,
                              foreignKeyTarget |-> rel.targetTableName,
                              foreignKeyColumn |-> "id"]])
  ELSE IF rel.type = M2M THEN
    LET junctionTableName ==
          getJunctionTableName(tableName, rel.propertyName, rel.targetTableName)
        cols ==
          getJunctionColumnNames(tableName, rel.propertyName, rel.targetTableName)
    IN Push(Begin(InitJunction(d)), "junctionTables.create",
            [tableName |-> junctionTableName,
             sourceTable |-> tableName,
             targetTable |-> rel.targetTableName,
             sourceColumn |-> cols.sourceColumn,
             targetColumn |-> cols.targetColumn])
  ELSE Begin(d)

CreatedRelation(rel, d) ==
  IF rel.type = M2O \/ rel.type = O2O THEN
    LET fkColumn == Or(rel.foreignKeyColumn,
                       getForeignKeyColumnName(rel.propertyName))
    IN Push(Begin(d), "columns.create",
            [name |-> fkColumn,
             type |-> "int",
             isNullable |-> Coalesce(rel.isNullable, TRUE),
             isForeignKey |-> TRUE,
             foreignKeyTarget |-> rel.targetTableName,
             foreignKeyColumn |-> "id"])
  ELSE IF rel.type = O2M THEN
    IF Falsy(rel.inversePropertyName) THEN Begin(d)
    ELSE LET fkColumn == Or(rel.foreignKeyColumn,
                            getForeignKeyColumnName(rel.inversePropertyName))
         IN Push(Begin(InitCross(d)), "crossTableOperations",
                 [operation |-> "createColumn",
                  targetTable |-> rel.targetTableName,
                  column |-> [name |-> fkColumn,
                              type |-> "int",
                              isNullable |-> TRUE,
                              isForeignKey |-> TRUE,
                              foreignKeyTarget |-> tableName,
                              foreignKeyColumn |-> "id"]])
  ELSE IF rel.type = M2M THEN
    LET junctionTableName ==
          getJunctionTableName(tableName, rel.propertyName, rel.targetTableName)
        cols ==
          getJunctionColumnNames(tableName, rel.propertyName, rel.targetTableName)
    IN Push(Begin(InitJunction(d)), "junctionTables.create",
            [tableName |-> junctionTableName,
             sourceTable |-> tableName,
             targetTable |-> rel.targetTableName,
             sourceColumn |-> cols.sourceColumn,
             targetColumn |-> cols.targetColumn])
  ELSE Begin(d)

----------------------------------------------------------------------------
(* handleRelationTypeChange *)

IsFk(type) == type = M2O \/ type = O2O

\* the conditions of the if/else-if chain, in its order
IsCase1(oldType, newType) == IsFk(oldType) /\ newType = M2M
\* the condition of case 2 without its parentheses
IsCase2Unparenthesized(oldType, newType) ==
  (oldType = M2M /\ newType = M2O) \/ newType = O2O
IsCase2(oldType, newType) == oldType = M2M /\ IsFk(newType)
IsCase3(oldType, newType) == oldType = O2M /\ newType = M2M
IsCase4(oldType, newType) == oldType = M2M /\ newType = O2M
IsCase5(oldType, newType) == IsFk(oldType) /\ newType = O2M
\* the condition of case 6 without its one-to-one half
IsCase6ManyToOneOnly(oldType, newType) == oldType = O2M /\ newType = M2O
IsCase6(oldType, newType) == oldType = O2M /\ IsFk(newType)

HandleRelationTypeChange(oldRel, newRel, d) ==
  LET r0 == Begin(InitJunction(InitCross(d)))
      oldType == oldRel.type
      newType == newRel.type
      \* the junction table of the new relation
      junctionCreate ==
        LET junctionTableName ==
              getJunctionTableName(tableName, newRel.propertyName,
                                   newRel.targetTableName)
            cols ==
              getJunctionColumnNames(tableName, newRel.propertyName,
                                     newRel.targetTableName)
        IN [tableName |-> junctionTableName,
            sourceTable |-> tableName,
            targetTable |-> newRel.targetTableName,
            sourceColumn |-> cols.sourceColumn,
            targetColumn |-> cols.targetColumn]
      \* the FK column of the old relation in the current table
      ownDelete ==
        [name |-> Or(oldRel.foreignKeyColumn,
                     getForeignKeyColumnName(oldRel.propertyName)),
         isForeignKey |-> TRUE]
      \* the FK column of the new relation in the current table
      ownCreate ==
        [name |-> Or(newRel.foreignKeyColumn,
                     getForeignKeyColumnName(newRel.propertyName)),
         type |-> "int",
         isNullable |-> Coalesce(newRel.isNullable, TRUE),
         isForeignKey |-> TRUE,
         foreignKeyTarget |-> newRel.targetTableName,
         foreignKeyColumn |-> "id"]
      \* the FK column of the old relation in its target table
      crossDrop ==
        [operation |-> "dropColumn",
         targetTable |-> oldRel.targetTableName,
         columnName |-> Or(oldRel.foreignKeyColumn,
                           getForeignKeyColumnName(oldRel.inversePropertyName)),
         isForeignKey |-> TRUE]
      \* the FK column of the new relation in its target table
      crossCreate ==
        [operation |-> "createColumn",
         targetTable |-> newRel.targetTableName,
         column |-> [name |-> Or(newRel.foreignKeyColumn,
                                 getForeignKeyColumnName(newRel.inversePropertyName)),
                     type |-> "int",
                     isNullable |-> TRUE,
                     isForeignKey |-> TRUE,
                     foreignKeyTarget |-> tableName,
                     foreignKeyColumn |-> "id"]]
  IN
  \* Case 1: M2O/O2O -> M2M
  IF IsCase1(oldType, newType) THEN
    Push(Push(r0, "columns.delete", ownDelete),
         "junctionTables.create", junctionCreate)
  \* Case 2: M2M -> M2O/O2O
  ELSE IF IsCase2(oldType, newType) THEN
    Push(Push(r0, "junctionTables.drop",
              [tableName |-> oldRel.junctionTableName,
               reason |-> "Relation type changed from M2M to M2O/O2O"]),
         "columns.create", ownCreate)
  \* Case 3: O2M -> M2M
  ELSE IF IsCase3(oldType, newType) THEN
    IF Falsy(oldRel.inversePropertyName) THEN Throw(r0)
    ELSE Push(Push(r0, "crossTableOperations", crossDrop),
              "junctionTables.create", junctionCreate)
  \* Case 4: M2M -> O2M
  ELSE IF IsCase4(oldType, newType) THEN
    LET r1 == Push(r0, "junctionTables.drop",
                   [tableName |-> oldRel.junctionTableName,
                    reason |-> "Relation type changed from M2M to O2M"])
    IN IF Falsy(newRel.inversePropertyName) THEN Throw(r1)
       ELSE Push(r1, "crossTableOperations", crossCreate)
  \* Case 5: M2O/O2O -> O2M
  ELSE IF IsCase5(oldType, newType) THEN
    LET r1 == Push(r0, "columns.delete", ownDelete)
    IN IF Falsy(newRel.inversePropertyName) THEN Throw(r1)
       ELSE Push(r1, "crossTableOperations", crossCreate)
  \* Case 6: O2M -> M2O/O2O
  ELSE IF IsCase6(oldType, newType) THEN
    IF Falsy(oldRel.inversePropertyName) THEN Throw(r0)
    ELSE Push(Push(r0, "crossTableOperations", crossDrop),
              "columns.create", ownCreate)
  \* Case 7: M2O <-> O2O, and the unhandled rest
  ELSE r0

----------------------------------------------------------------------------
(* handleUpdatedRelations, the body of its loop for one entry of newRelMap *)

\* the fields whose change the loop reports
Changes(oldRel, newRel) ==
  {f \in {"propertyName", "type", "targetTableName", "isNullable"} :
     oldRel[f] # newRel[f]}

UpdatedRelation(olds, relId, newRel, d) ==
  IF ~MapHas(olds, relId) THEN Begin(d)
  ELSE LET oldRel == MapGet(olds, relId)
       IN IF Changes(oldRel, newRel) # {} /\ oldRel.type # newRel.type
          THEN HandleRelationTypeChange(oldRel, newRel, d)
          ELSE Begin(d)

----------------------------------------------------------------------------
(* The inputs of a call *)

TargetName(name) == [kind |-> "string", id |-> 0, name |-> name]
TargetRef(id) == [kind |-> "object", id |-> id, name |-> UNDEF]

\* A relation record as stored metadata hands it over: propertyName and type
\* always set, the target given by reference or by name, the rest optional.
\* A many-to-many relation names its junction table.
Relation(id, propertyName, type, target, inverse, fk, nullable, junction) ==
  [id |-> id,
   propertyName |-> propertyName,
   type |-> type,
   sourceTableName |-> UNDEF,
   targetTable |-> target,
   targetTableName |-> UNDEF,
   inversePropertyName |-> inverse,
   foreignKeyColumn |-> fk,
   isNullable |-> nullable,
   junctionTableName |-> IF type = M2M THEN junction ELSE UNDEF]

\* Relations of a batch: the names follow the id, the type is one of the
\* three physical representations (own FK column, FK column in the target
\* table, junction table), and a one-to-many relation may lack its
\* inversePropertyName.
BatchRelations(id) ==
  LET propertyName == "rel" \o ToString(id)
  IN {Relation(id, propertyName, type, TargetRef(2),
               inverse, UNDEF, {},
               getJunctionTableName(tableName, propertyName, "tag")) :
        type \in {M2O, M2M}, inverse \in {UNDEF}}
     \cup
     {Relation(id, propertyName, O2M, TargetRef(2), inverse, UNDEF, {}, UNDEF) :
        inverse \in {UNDEF, "inv" \o ToString(id)}}

\* the relation ids of a batch
RelationIds == {1, 2, 3}

\* sequences of at most n relation ids
RECURSIVE IdSeqs(_)
IdSeqs(n) ==
  IF n = 0 THEN {<<>>}
  ELSE LET shorter == IdSeqs(n - 1)
       IN shorter \cup
          {Append(s, id) : s \in {t \in shorter : Len(t) = n - 1},
                           id \in RelationIds}

DistinctIds(s) == \A m, n \in DOMAIN s : m # n => s[m] # s[n]

Ascending(s) == \A m, n \in DOMAIN s : m < n => s[m] < s[n]

Descending(s) == \A m, n \in DOMAIN s : m < n => s[m] > s[n]

RECURSIVE BatchLists(_)
BatchLists(ids) ==
  IF ids = <<>> THEN {<<>>}
  ELSE {<<r>> \o rest : r \in BatchRelations(Head(ids)),
                        rest \in BatchLists(Tail(ids))}

\* the stored relations, as the metadata lists them: by ascending id
BatchOldInputs ==
  UNION {BatchLists(ids) : ids \in {s \in IdSeqs(MaxRels) : Ascending(s)}}

\* the submitted relations, listed up or down by id
BatchNewInputs ==
  UNION {BatchLists(ids) :
           ids \in {s \in IdSeqs(MaxRels) : Ascending(s) \/ Descending(s)}}

\* Relations of one id with every field varying: two property names, a
\* target that is the diffed table itself, a resolvable reference or an
\* unresolvable one, an inverse name that may equal a property name, an
\* explicit foreignKeyColumn with isNullable set, and a junction table name
\* that is the derived one or not.
FieldRelations ==
  {Relation(1, propertyName, type, target, inverse, fk[1], fk[2],
            junction) :
     propertyName \in {"author", "owner"},
     type \in RelationTypes,
     target \in {TargetName(tableName), TargetRef(2), TargetRef(9)},
     inverse \in {UNDEF, "author"},
     fk \in {<<UNDEF, {}>>, <<"fk_col", {FALSE}>>},
     junction \in {getJunctionTableName(tableName, "author", "tag"),
                   "legacy_junction"}}

FieldInputs == {<<>>} \cup {<<r>> : r \in FieldRelations}

\* The diff as the caller passes it: fresh, with only the column lists, or
\* already holding entries of the column diff and of earlier analyses.
FreshDiff == [columns |-> [create |-> <<>>, delete |-> <<>>]]

FilledDiff ==
  [columns |-> [create |-> <<[name |-> "title", type |-> "varchar",
                              isNullable |-> TRUE]>>,
                delete |-> <<[name |-> "legacy"]>>],
   crossTableOperations |-> <<[operation |-> "dropColumn",
                               targetTable |-> "user",
                               columnName |-> "postId",
                               isForeignKey |-> TRUE]>>,
   junctionTables |-> [create |-> <<>>,
                       drop |-> <<[tableName |-> "post_old_tag",
                                   reason |-> "Relation deleted"]>>,
                       update |-> <<>>]]

CallerDiffs == {FreshDiff, FilledDiff}

----------------------------------------------------------------------------
(* analyzeRelationChanges as a state machine *)

InitWith(olds, news, diffs) ==
  /\ oldRelations \in olds
  /\ newRelations \in news
  /\ diff \in diffs
  /\ callerDiff = diff
  /\ deletedRelIds = <<>>
  /\ createdRelIds = <<>>
  /\ pc = "call"
  /\ i = 1
  /\ journal = <<>>

\* a batch of relations over either diff, or one relation with every field
\* varying over a fresh diff
Init ==
  \/ InitWith(BatchOldInputs, BatchNewInputs, CallerDiffs)
  \/ InitWith(FieldInputs, FieldInputs, {FreshDiff})

\* the pushes of one handler call, as journal entries
Journal(planner, relId, pushed) ==
  [n \in DOMAIN pushed |->
     [planner |-> planner, relId |-> relId,
      list |-> pushed[n].list, op |-> pushed[n].op]]

\* Where control is next: the loop iteration to run, or the return. A loop
\* whose list is exhausted is left for the next handler (lines 72-74).
FromUpdated(idx, keys) ==
  IF idx <= Len(keys) THEN <<"updated", idx>> ELSE <<"returned", idx>>

FromCreated(idx, cres, keys) ==
  IF idx <= Len(cres) THEN <<"created", idx>> ELSE FromUpdated(1, keys)

FromDeleted(idx, dels, cres, keys) ==
  IF idx <= Len(dels) THEN <<"deleted", idx>> ELSE FromCreated(1, cres, keys)

\* lines 18-70: resolve the target table names, build the maps, classify
Analyze ==
  /\ pc = "call"
  /\ LET map == TargetTablesMap(oldRelations, newRelations)
         olds == ResolveRelations(oldRelations, map)
         news == ResolveRelations(newRelations, map)
     IN /\ oldRelations' = olds
        /\ newRelations' = news
        /\ deletedRelIds' = IdsNotIn(olds, news)
        /\ createdRelIds' = IdsNotIn(news, olds)
        /\ LET next == FromDeleted(1, IdsNotIn(olds, news),
                                   IdsNotIn(news, olds), MapKeys(news))
           IN pc' = next[1] /\ i' = next[2]
  /\ UNCHANGED <<diff, callerDiff, journal>>

\* line 72: one iteration of the loop of handleDeletedRelations
HandleDeletedRelations ==
  /\ pc = "deleted"
  /\ LET relId == deletedRelIds[i]
         r == IF MapHas(oldRelations, relId)
              THEN DeletedRelation(Find(oldRelations, relId), diff)
              ELSE Begin(diff)
     IN /\ diff' = r.diff
        /\ journal' = journal \o Journal("deleted", relId, r.pushed)
  /\ LET next == FromDeleted(i + 1, deletedRelIds, createdRelIds,
                             MapKeys(newRelations))
     IN pc' = next[1] /\ i' = next[2]
  /\ UNCHANGED <<oldRelations, newRelations, deletedRelIds, createdRelIds,
                 callerDiff>>

\* line 73: one iteration of the loop of handleCreatedRelations
HandleCreatedRelations ==
  /\ pc = "created"
  /\ LET relId == createdRelIds[i]
         r == IF MapHas(newRelations, relId)
              THEN CreatedRelation(Find(newRelations, relId), diff)
              ELSE Begin(diff)
     IN /\ diff' = r.diff
        /\ journal' = journal \o Journal("created", relId, r.pushed)
  /\ LET next == FromCreated(i + 1, createdRelIds, MapKeys(newRelations))
     IN pc' = next[1] /\ i' = next[2]
  /\ UNCHANGED <<oldRelations, newRelations, deletedRelIds, createdRelIds,
                 callerDiff>>

\* line 74: one iteration of the loop of handleUpdatedRelations; an error
\* thrown by handleRelationTypeChange leaves every frame
HandleUpdatedRelations ==
  /\ pc = "updated"
  /\ LET keys == MapKeys(newRelations)
         relId == keys[i]
         r == UpdatedRelation(oldRelations, relId,
                              MapGet(newRelations, relId), diff)
     IN /\ diff' = r.diff
        /\ journal' = journal \o Journal("updated", relId, r.pushed)
        /\ LET next == IF r.thrown THEN <<"thrown", i>>
                        ELSE FromUpdated(i + 1, keys)
           IN pc' = next[1] /\ i' = next[2]
  /\ UNCHANGED <<oldRelations, newRelations, deletedRelIds, createdRelIds,
                 callerDiff>>

Next ==
  \/ Analyze
  \/ HandleDeletedRelations
  \/ HandleCreatedRelations
  \/ HandleUpdatedRelations

Spec == Init /\ [][Next]_vars

----------------------------------------------------------------------------
(* The result of a whole call, lines 54-74, as a function of the resolved  *)
(* lists and the diff passed in                                            *)

\* the loop of handleDeletedRelations
RECURSIVE DeletedLoop(_, _, _)
DeletedLoop(olds, ids, d) ==
  IF ids = <<>> THEN d
  ELSE LET r == IF MapHas(olds, Head(ids))
                THEN DeletedRelation(Find(olds, Head(ids)), d)
                ELSE Begin(d)
       IN DeletedLoop(olds, Tail(ids), r.diff)

\* the loop of handleCreatedRelations
RECURSIVE CreatedLoop(_, _, _)
CreatedLoop(news, ids, d) ==
  IF ids = <<>> THEN d
  ELSE LET r == IF MapHas(news, Head(ids))
                THEN CreatedRelation(Find(news, Head(ids)), d)
                ELSE Begin(d)
       IN CreatedLoop(news, Tail(ids), r.diff)

\* the loop of handleUpdatedRelations, left by the first error
RECURSIVE UpdatedLoop(_, _, _, _)
UpdatedLoop(olds, news, keys, d) ==
  IF keys = <<>> THEN [diff |-> d, thrown |-> FALSE]
  ELSE LET r == UpdatedRelation(olds, Head(keys),
                                MapGet(news, Head(keys)), d)
       IN IF r.thrown THEN [diff |-> r.diff, thrown |-> TRUE]
          ELSE UpdatedLoop(olds, news, Tail(keys), r.diff)

Outcome(olds, news, d) ==
  UpdatedLoop(olds, news, MapKeys(news),
    CreatedLoop(news, IdsNotIn(news, olds),
      DeletedLoop(olds, IdsNotIn(olds, news), d)))

----------------------------------------------------------------------------
(* What the properties speak about *)

\* the lists are resolved and the relations classified
Started == pc # "call"

Finished == pc \in {"returned", "thrown"}

Keys == MapKeys(newRelations)

IdsOf(rels) == {rels[n].id : n \in DOMAIN rels}

Elements(seq) == {seq[n] : n \in DOMAIN seq}

\* the n-th deleted relation has been through handleDeletedRelations
DeletedHandled(n) == Started /\ (pc = "deleted" => n < i)

\* the n-th created relation has been through handleCreatedRelations
CreatedHandled(n) ==
  \/ pc \in {"updated", "returned", "thrown"}
  \/ pc = "created" /\ n < i

\* the n-th entry of newRelMap has been through handleUpdatedRelations
\* without an error
UpdatedHandled(n) ==
  \/ pc = "returned"
  \/ pc \in {"updated", "thrown"} /\ n < i

\* the pushes one planner made for one relation, in their order
Entries(planner, relId) ==
  SelectSeq(journal, LAMBDA e : e.planner = planner /\ e.relId = relId)

\* the operations pushed to one list, in their order
PushedTo(list) ==
  LET es == SelectSeq(journal, LAMBDA e : e.list = list)
  IN [n \in DOMAIN es |-> es[n].op]

\* every list of the diff is the caller's list followed by the pushes made
\* to it: the journal is the whole story of the diff
JournalIsDiff ==
  \A list \in ListNames :
    ListOf(diff, list) = ListOf(callerDiff, list) \o PushedTo(list)

\* the physical representation of a relation type
Representation(type) ==
  IF type \in {M2O, O2O} THEN "own column"
  ELSE IF type = O2M THEN "target column"
  ELSE "junction table"

\* the inversePropertyName a one-to-many relation needs
HasInverse(rel) == rel.inversePropertyName \notin {UNDEF, ""}

\* a journal entry that drops the representation of rel
IsDropOf(e, rel) ==
  CASE Representation(rel.type) = "own column" -> e.list = "columns.delete"
    [] Representation(rel.type) = "target column" ->
         /\ e.list = "crossTableOperations"
         /\ e.op.operation = "dropColumn"
         /\ e.op.targetTable = rel.targetTableName
    [] Representation(rel.type) = "junction table" ->
         /\ e.list = "junctionTables.drop"
         /\ e.op.tableName = rel.junctionTableName

\* a journal entry that creates the representation of rel
IsCreateOf(e, rel) ==
  CASE Representation(rel.type) = "own column" ->
         /\ e.list = "columns.create"
         /\ e.op.foreignKeyTarget = rel.targetTableName
    [] Representation(rel.type) = "target column" ->
         /\ e.list = "crossTableOperations"
         /\ e.op.operation = "createColumn"
         /\ e.op.targetTable = rel.targetTableName
         /\ e.op.column.foreignKeyTarget = tableName
    [] Representation(rel.type) = "junction table" ->
         /\ e.list = "junctionTables.create"
         /\ e.op.sourceTable = tableName
         /\ e.op.targetTable = rel.targetTableName

\* the n-th entry of newRelMap has an old record
Matched(n) == MapHas(oldRelations, Keys[n])
OldOf(n) == MapGet(oldRelations, Keys[n])
NewOf(n) == MapGet(newRelations, Keys[n])

\* a type change between different physical representations
Structural(oldRel, newRel) ==
  Representation(oldRel.type) # Representation(newRel.type)

\* the inversePropertyName the type change needs is there
InverseGiven(oldRel, newRel) ==
  /\ oldRel.type = O2M => HasInverse(oldRel)
  /\ newRel.type = O2M => HasInverse(newRel)

----------------------------------------------------------------------------
(* C1: a matched pair whose type change is one of the six structural       *)
(* transitions, with the inversePropertyName it needs, gets exactly two    *)
(* operations: first the drop of the old representation, then the create   *)
(* of the new one; no other list gains an entry.                           *)

C1_TypeChangeDropsThenCreates ==
  /\ JournalIsDiff
  /\ \A n \in DOMAIN Keys :
       (UpdatedHandled(n) /\ Matched(n)
          /\ Structural(OldOf(n), NewOf(n))
          /\ InverseGiven(OldOf(n), NewOf(n)))
       => LET es == Entries("updated", Keys[n])
          IN /\ Len(es) = 2
             /\ IsDropOf(es[1], OldOf(n))
             /\ IsCreateOf(es[2], NewOf(n))

\* a one-to-many relation with another target became one-to-one, and its two
\* operations are in the diff
C1_Witness ==
  /\ pc = "returned"
  /\ \E n \in DOMAIN Keys :
       /\ Matched(n)
       /\ OldOf(n).type = O2M /\ NewOf(n).type = O2O
       /\ OldOf(n).targetTableName # NewOf(n).targetTableName
       /\ Len(Entries("updated", Keys[n])) = 2
       /\ Len(ListOf(diff, "crossTableOperations"))
            = Len(ListOf(callerDiff, "crossTableOperations")) + 1

----------------------------------------------------------------------------
(* C3: with ids unique within each list, the deleted ids, the created ids  *)
(* and the matched ids (the entries of newRelMap that have an old record)  *)
(* are pairwise disjoint and together are the ids of both lists.           *)

C3_Partition ==
  Started =>
    LET deleted == Elements(deletedRelIds)
        created == Elements(createdRelIds)
        matched == {Keys[n] : n \in {m \in DOMAIN Keys : Matched(m)}}
    IN /\ deleted \cap created = {}
       /\ deleted \cap matched = {}
       /\ created \cap matched = {}
       /\ deleted \cup created \cup matched
            = IdsOf(oldRelations) \cup IdsOf(newRelations)
       /\ Len(deletedRelIds) = Cardinality(deleted)
       /\ Len(createdRelIds) = Cardinality(created)

\* one relation deleted, one created and one matched in the same call
C3_Witness ==
  /\ Started
  /\ deletedRelIds # <<>>
  /\ createdRelIds # <<>>
  /\ \E n \in DOMAIN Keys : Matched(n)

----------------------------------------------------------------------------
(* C9: a matched pair whose types are equal, or many-to-one and one-to-one *)
(* in either order, gets no operation, whatever else differs; a matched    *)
(* pair gets operations only for a type change between different physical  *)
(* representations.                                                        *)

C9_SameRepresentationNoOperation ==
  /\ JournalIsDiff
  /\ \A n \in DOMAIN Keys :
       (Started /\ Matched(n) /\ ~Structural(OldOf(n), NewOf(n)))
       => Entries("updated", Keys[n]) = <<>>

\* a matched many-to-one relation was renamed, retargeted and turned
\* one-to-one, and the call returned
C9_Witness ==
  /\ pc = "returned"
  /\ \E n \in DOMAIN Keys :
       /\ Matched(n)
       /\ OldOf(n).type = M2O /\ NewOf(n).type = O2O
       /\ OldOf(n).propertyName # NewOf(n).propertyName
       /\ OldOf(n).targetTableName # NewOf(n).targetTableName
       /\ OldOf(n).isNullable # NewOf(n).isNullable

----------------------------------------------------------------------------
(* C2: every deleted relation and every created relation that has its      *)
(* required fields gets exactly one operation, in the list its type        *)
(* dictates and in no other: the drop of its representation (a deleted     *)
(* one), the create of its representation (a created one).                 *)

C2_OneOperationPerDeletedOrCreated ==
  /\ JournalIsDiff
  /\ \A n \in DOMAIN deletedRelIds :
       LET rel == Find(oldRelations, deletedRelIds[n])
           es == Entries("deleted", rel.id)
       IN (DeletedHandled(n) /\ (rel.type = O2M => HasInverse(rel)))
          => Len(es) = 1 /\ IsDropOf(es[1], rel)
  /\ \A n \in DOMAIN createdRelIds :
       LET rel == Find(newRelations, createdRelIds[n])
           es == Entries("created", rel.id)
       IN (CreatedHandled(n) /\ (rel.type = O2M => HasInverse(rel)))
          => Len(es) = 1 /\ IsCreateOf(es[1], rel)

\* a one-to-many relation was deleted and a many-to-many one created, and
\* each has its operation in the diff
C2_Witness ==
  /\ pc = "returned"
  /\ \E n \in DOMAIN deletedRelIds :
       LET rel == Find(oldRelations, deletedRelIds[n])
       IN rel.type = O2M /\ Len(Entries("deleted", rel.id)) = 1
  /\ \E n \in DOMAIN createdRelIds :
       LET rel == Find(newRelations, createdRelIds[n])
       IN rel.type = M2M /\ Len(Entries("created", rel.id)) = 1
  /\ Len(ListOf(diff, "junctionTables.create"))
       = Len(ListOf(callerDiff, "junctionTables.create")) + 1

----------------------------------------------------------------------------
(* C4: in each of the four type changes that need an inverse-side FK       *)
(* column, a missing inversePropertyName raises an error, and when it is   *)
(* raised no list of the diff holds an operation of that relation.         *)

\* a type change that needs an inversePropertyName that is missing
Fatal(oldRel, newRel) ==
  /\ Structural(oldRel, newRel)
  /\ ~InverseGiven(oldRel, newRel)

C4_FailedTypeChangeLeavesNoOperation ==
  \A n \in DOMAIN Keys :
    (Started /\ Matched(n) /\ Fatal(OldOf(n), NewOf(n)))
    => /\ ~UpdatedHandled(n)
       /\ (pc = "thrown" /\ i = n) =>
            /\ Entries("updated", Keys[n]) = <<>>
            /\ JournalIsDiff

----------------------------------------------------------------------------
(* C5: a type change from one-to-many to many-to-many whose old relation   *)
(* lacks inversePropertyName raises an error and leaves the diff as it was *)
(* just before that relation was resolved, whatever diff the caller passed.*)

\* the loop of handleUpdatedRelations is about to resolve such a pair
C5_Case ==
  /\ pc = "updated"
  /\ i \in DOMAIN Keys
  /\ Matched(i)
  /\ OldOf(i).type = O2M /\ NewOf(i).type = M2M
  /\ ~HasInverse(OldOf(i))

\* the claim as stated: the diff is the same value before and after
C5_DiffUntouched ==
  [][C5_Case => (pc' = "thrown" /\ diff' = diff)]_vars

\* the claim as amended: no list changes; a field the diff lacks may appear,
\* empty
C5_NoListChanges ==
  [][C5_Case =>
       /\ pc' = "thrown"
       /\ diff'.columns = diff.columns
       /\ diff'.crossTableOperations
            = IF HasCross(diff) THEN diff.crossTableOperations ELSE <<>>
       /\ diff'.junctionTables
            = IF HasJunction(diff) THEN diff.junctionTables
              ELSE [create |-> <<>>, drop |-> <<>>, update |-> <<>>]
       /\ journal' = journal]_vars

\* the error of such a pair has been raised, after an earlier relation put
\* an operation into the diff
C5_Witness ==
  /\ pc = "thrown"
  /\ Matched(i)
  /\ OldOf(i).type = O2M /\ NewOf(i).type = M2M
  /\ ~HasInverse(OldOf(i))
  /\ journal # <<>>

----------------------------------------------------------------------------
(* C6: a fatal missing-inversePropertyName error ends the whole call with  *)
(* no rollback: nothing runs after it, the diff keeps the operations of    *)
(* the deleted relations, of the created relations and of the matched      *)
(* relations earlier in newRelations, and holds none of a later one.       *)

C6_ErrorAbortsWithoutRollback ==
  /\ \A n \in DOMAIN Keys :
       (Started /\ Matched(n) /\ Fatal(OldOf(n), NewOf(n)))
       => ~UpdatedHandled(n)
  /\ pc = "thrown" =>
       /\ ~ENABLED Next
       /\ Matched(i) /\ Fatal(OldOf(i), NewOf(i))
       /\ JournalIsDiff
       /\ \A n \in DOMAIN deletedRelIds :
            LET rel == Find(oldRelations, deletedRelIds[n])
            IN (rel.type = O2M => HasInverse(rel))
               => Len(Entries("deleted", rel.id)) = 1
       /\ \A n \in DOMAIN createdRelIds :
            LET rel == Find(newRelations, createdRelIds[n])
            IN (rel.type = O2M => HasInverse(rel))
               => Len(Entries("created", rel.id)) = 1
       /\ \A n \in DOMAIN Keys :
            /\ (n < i /\ Matched(n) /\ Structural(OldOf(n), NewOf(n)))
               => Len(Entries("updated", Keys[n])) = 2
            /\ n > i => Entries("updated", Keys[n]) = <<>>

\* the error was raised for the second matched relation, after the first
\* one changed type and got its two operations
C6_Witness ==
  /\ pc = "thrown"
  /\ i = 2
  /\ Matched(1) /\ Structural(OldOf(1), NewOf(1))
  /\ Len(Entries("updated", Keys[1])) = 2
  /\ Len(journal) >= 2

----------------------------------------------------------------------------
(* C7: a deleted or created one-to-many relation that lacks                *)
(* inversePropertyName is skipped without error: it gets no operation, and *)
(* the call ends as it ends on the same input without that relation.       *)

\* rels without the relations whose id is in ids
Without(rels, ids) == SelectSeq(rels, LAMBDA r : r.id \notin ids)

\* the deleted (of oldRelations) or created (of newRelations) relations the
\* planners skip
Skipped(rels, ids) ==
  {id \in Elements(ids) :
     Find(rels, id).type = O2M /\ ~HasInverse(Find(rels, id))}

C7_SkippedRelationChangesNothing ==
  Finished =>
    /\ \A id \in Skipped(oldRelations, deletedRelIds) :
         Entries("deleted", id) = <<>>
    /\ \A id \in Skipped(newRelations, createdRelIds) :
         Entries("created", id) = <<>>
    /\ \A dropOld \in SUBSET Skipped(oldRelations, deletedRelIds) :
         \A dropNew \in SUBSET Skipped(newRelations, createdRelIds) :
           Outcome(Without(oldRelations, dropOld),
                   Without(newRelations, dropNew), callerDiff)
             = [diff |-> diff, thrown |-> pc = "thrown"]

\* a skipped deleted relation beside a created one that got its operation,
\* in a diff the caller passed without a crossTableOperations field
C7_Witness ==
  /\ pc = "returned"
  /\ Skipped(oldRelations, deletedRelIds) # {}
  /\ ~HasCross(callerDiff)
  /\ \E n \in DOMAIN createdRelIds :
       Len(Entries("created", createdRelIds[n])) = 1

----------------------------------------------------------------------------
(* C8: the planners run in the order deletions, creations, updates over an *)
(* append-only diff: in every list the caller's entries come first,        *)
(* unchanged, then the entries of deleted relations, then those of created *)
(* relations, then those of type-changed relations; no entry is removed or *)
(* reordered once appended.                                                *)

Rank(planner) ==
  CASE planner = "deleted" -> 1
    [] planner = "created" -> 2
    [] planner = "updated" -> 3

IsPrefix(s, t) == Len(s) <= Len(t) /\ SubSeq(t, 1, Len(s)) = s

C8_Ordered ==
  /\ JournalIsDiff
  /\ \A m, n \in DOMAIN journal :
       m < n => Rank(journal[m].planner) <= Rank(journal[n].planner)

C8_AppendOnly ==
  \A list \in ListNames : IsPrefix(ListOf(diff, list), ListOf(diff', list))

C8_PlannersInOrderAppendOnly == [](C8_Ordered) /\ [][C8_AppendOnly]_vars

\* junctionTables.drop holds the caller's entry, then the drop of a deleted
\* relation, then the drop of a type-changed one
C8_Witness ==
  /\ pc = "returned"
  /\ Len(ListOf(callerDiff, "junctionTables.drop")) = 1
  /\ Len(ListOf(diff, "junctionTables.drop")) = 3
  /\ \E e \in Elements(journal) :
       e.planner = "deleted" /\ e.list = "junctionTables.drop"
  /\ \E e \in Elements(journal) :
       e.planner = "updated" /\ e.list = "junctionTables.drop"

----------------------------------------------------------------------------
(* C10: the diff migrates the physical schema of the old relations to that *)
(* of the new ones.                                                        *)

Column(table, name) == [kind |-> "column", table |-> table, name |-> name]
JunctionTable(name) == [kind |-> "junction", table |-> name, name |-> UNDEF]

\* the one physical item that represents a relation
ItemOf(rel) ==
  CASE Representation(rel.type) = "own column" ->
         Column(tableName,
                IF rel.foreignKeyColumn \notin {UNDEF, ""}
                THEN rel.foreignKeyColumn
                ELSE getForeignKeyColumnName(rel.propertyName))
    [] Representation(rel.type) = "target column" ->
         Column(rel.targetTableName,
                IF rel.foreignKeyColumn \notin {UNDEF, ""}
                THEN rel.foreignKeyColumn
                ELSE getForeignKeyColumnName(rel.inversePropertyName))
    [] Representation(rel.type) = "junction table" ->
         JunctionTable(getJunctionTableName(tableName, rel.propertyName,
                                            rel.targetTableName))

Schema(rels) == {ItemOf(rels[n]) : n \in DOMAIN rels}

\* the item a journal entry drops or creates
Affected(e) ==
  CASE e.list = "columns.delete" -> Column(tableName, e.op.name)
    [] e.list = "columns.create" -> Column(tableName, e.op.name)
    [] e.list = "crossTableOperations" ->
         IF e.op.operation = "dropColumn"
         THEN Column(e.op.targetTable, e.op.columnName)
         ELSE Column(e.op.targetTable, e.op.column.name)
    [] e.list = "junctionTables.drop" -> JunctionTable(e.op.tableName)
    [] e.list = "junctionTables.create" -> JunctionTable(e.op.tableName)

IsDrop(e) ==
  \/ e.list \in {"columns.delete", "junctionTables.drop"}
  \/ e.list = "crossTableOperations" /\ e.op.operation = "dropColumn"

DroppedItems == {Affected(e) : e \in {x \in Elements(journal) : IsDrop(x)}}
CreatedItems == {Affected(e) : e \in {x \in Elements(journal) : ~IsDrop(x)}}

\* old and new record of a matched relation differ at most in type (and in
\* the junction table name only a many-to-many relation carries)
SameButType(oldRel, newRel) ==
  \A f \in DOMAIN oldRel \ {"type", "junctionTableName"} :
    oldRel[f] = newRel[f]

C10_Inputs ==
  /\ JournalIsDiff
  /\ DistinctIds([n \in DOMAIN oldRelations |-> oldRelations[n].id])
  /\ DistinctIds([n \in DOMAIN newRelations |-> newRelations[n].id])
  /\ \A r \in Elements(oldRelations) \cup Elements(newRelations) :
       r.type = O2M => HasInverse(r)
  /\ \A n \in DOMAIN Keys : Matched(n) => SameButType(OldOf(n), NewOf(n))
  /\ \A r1, r2 \in Elements(oldRelations) \cup Elements(newRelations) :
       r1.id # r2.id => ItemOf(r1) # ItemOf(r2)
  /\ \A r \in Elements(oldRelations) :
       r.type = M2M => JunctionTable(r.junctionTableName) = ItemOf(r)

\* the claim as stated
C10_DiffMigratesSchema ==
  (pc = "returned" /\ C10_Inputs) =>
    /\ (Schema(oldRelations) \ DroppedItems) \cup CreatedItems
         = Schema(newRelations)
    /\ DroppedItems \subseteq Schema(oldRelations)
    /\ CreatedItems \cap Schema(oldRelations) = {}

\* the claim as amended: a created item may be in the old schema when the
\* same diff drops it
C10_DiffMigratesSchemaAmended ==
  (pc = "returned" /\ C10_Inputs) =>
    /\ (Schema(oldRelations) \ DroppedItems) \cup CreatedItems
         = Schema(newRelations)
    /\ DroppedItems \subseteq Schema(oldRelations)
    /\ CreatedItems \cap (Schema(oldRelations) \ DroppedItems) = {}

\* a deleted relation, a created one and a matched one that changed type,
\* with four operations in the diff
C10_Witness ==
  /\ pc = "returned"
  /\ C10_Inputs
  /\ deletedRelIds # <<>>
  /\ createdRelIds # <<>>
  /\ \E n \in DOMAIN Keys : Matched(n) /\ Structural(OldOf(n), NewOf(n))
  /\ Cardinality(DroppedItems) = 2
  /\ Cardinality(CreatedItems) = 2

=============================================================================
